---------------------------- MODULE Spec2Model ----------------------------
(***************************************************************************)
(* CryptoCast_AI: the forecast entry point (AIPredictor.predict_price),    *)
(* the pattern entry point (PatternAnalyzer.analyze_patterns), their       *)
(* scorers, and the predictor object the routes share.                     *)
(*                                                                         *)
(* Numbers.  Prices are integers; every comparison the code makes on a     *)
(* quotient (a percentage, a mean) is made here on the cross-multiplied    *)
(* integers, so thresholds are exact.  A NaN or an infinity produced by    *)
(* a float division by zero is tracked as such (IsNaN / IsInf below).      *)
(* What scikit-learn computes (a fitted regressor's response, its error    *)
(* on the held-out rows) and what the exponential averages of MACD give    *)
(* is not computed: it is a choice drawn from a small set (Oracle).        *)
(***************************************************************************)
EXTENDS Integers, Sequences, FiniteSets, TLC

VARIABLES
    historical_data,  \* the argument of the entry point: a mapping with (or without) 'prices', 'total_volumes'
    oracle,           \* the outcomes of the numeric library calls and the injected faults of this call
    entry,            \* "none", or the entry point that ran
    outcome,          \* [ret |-> value] when the entry point returned, [raise |-> msg] when it raised
    score_in,         \* the scorers' arguments (SpecScore)
    score_out,        \* the scorers' results (SpecScore)
    predictor,        \* the shared AIPredictor object: its scaler and models (SpecShared)
    calls,            \* the predict_price calls made on the shared object (SpecShared)
    clobbered,        \* history: a fit replaced state fitted by another call (SpecShared)
    X_scaled,         \* [train, test]: the standardized feature rows of the two partitions (SpecLoop)
    last_features,    \* the feature row the forecast loop predicts from (SpecLoop)
    future_predictions, \* the forecast of the model in hand, so far (SpecLoop)
    loop,             \* the position in the per-model loop, the fitted model, the seed row (SpecLoop)
    active_connections, \* ConnectionManager.active_connections: a list of websockets (SpecWs)
    background_task_running, \* the module-level flag of app.py (SpecWs)
    endpoints,        \* websocket_endpoint coroutines: where each one stands (SpecWs)
    tasks,            \* background_price_updates tasks: where each one stands (SpecWs)
    ready,            \* the event loop's queue of coroutines ready to run, first in first out (SpecWs)
    ws_log,           \* history: what disconnect and broadcast did (SpecWs)
    cache,            \* CryptoService.cache: key -> (data, timestamp) (SpecCache)
    now,              \* time.time(), in seconds (SpecCache)
    reply             \* the last public call of CryptoService and what it gave (SpecCache)

callVars == <<historical_data, oracle, entry, outcome>>
scoreVars == <<score_in, score_out>>
sharedVars == <<predictor, calls, clobbered>>
loopVars == <<X_scaled, last_features, future_predictions, loop>>
wsVars == <<active_connections, background_task_running, endpoints, tasks, ready, ws_log>>
cacheVars == <<cache, now, reply>>

vars == <<callVars, scoreVars, sharedVars, loopVars, wsVars, cacheVars>>

----------------------------------------------------------------------------
(* Bounds of the model. *)

\* longest price series drawn
MaxLen == 24
\* number of predict_price calls made on the shared predictor
MaxCalls == 3
\* longest price column given to the candlestick detection on its own
MaxCandles == 7
\* most rows of the cleaned table in the forecast loop taken on its own
MaxRows == 11
\* number of websocket clients
MaxClients == 2
\* the clock of the cache runs up to this many seconds
MaxTime == 360

(* Program constants. *)

\* predict_price: minimum number of raw points
MinRawPoints == 20
\* _prepare_features: minimum number of points
MinPreparePoints == 10
\* predict_price: minimum number of cleaned rows
MinCleanRows == 10
\* predict_price: hours forecast
Horizon == 24
\* _calculate_rsi: window
RsiWindow == 14
\* _prepare_features: rolling windows and number of lags
MaShort == 5
MaLong == 10
NumLags == 5
\* analyze_patterns: minimum number of points
MinPatternPoints == 20
\* CryptoService: seconds an entry of the cache is valid
CacheDuration == 300
\* _make_request: seconds slept after a 429
RateLimitWait == 60
\* get_coin_history: default number of days
DefaultDays == 7

HourMs == 60 * 60 * 1000
DayMs == 24 * HourMs

ModelNames == <<"random_forest", "linear_regression">>
ModelSet == {ModelNames[k] : k \in 1..Len(ModelNames)}

----------------------------------------------------------------------------
(* Helpers on sequences and numbers. *)

Abs(x) == IF x < 0 THEN -x ELSE x

Last(s) == s[Len(s)]

RECURSIVE SumSeq(_)
SumSeq(s) == IF s = <<>> THEN 0 ELSE s[1] + SumSeq(Tail(s))

\* s with the elements of index in keep, in order
RECURSIVE SelectIdx(_, _, _)
SelectIdx(s, keep, i) ==
    IF i > Len(s) THEN <<>>
    ELSE (IF i \in keep THEN <<s[i]>> ELSE <<>>) \o SelectIdx(s, keep, i + 1)

\* the last k elements of s (all of them when it has fewer): s[-k:]
LastK(s, k) == IF Len(s) <= k THEN s ELSE SubSeq(s, Len(s) - k + 1, Len(s))

----------------------------------------------------------------------------
(* Inputs: the historical-data objects drawn. *)

Shapes == {"rise", "fall", "flat", "zigzag", "zero"}
Orders == {"sorted", "last_first", "reversed"}
Forms  == {"ok", "no_prices", "no_volumes", "bad_row", "more_volumes"}

\* price of the i-th point in time of a series of n points
PriceAt(shape, i, n) ==
    CASE shape = "rise"   -> 100 + i
      [] shape = "fall"   -> 200 - i
      [] shape = "flat"   -> 100
      [] shape = "zigzag" -> IF i % 2 = 1 THEN 100 ELSE 104
      [] shape = "zero"   -> IF i = n - 1 THEN 0 ELSE 100 + i

\* position in time of the k-th element of the sequence as it is passed
TimeIndex(order, k, n) ==
    CASE order = "sorted"     -> k
      [] order = "last_first" -> IF k = 1 THEN n ELSE k - 1
      [] order = "reversed"   -> n + 1 - k

PriceRows(shape, order, n) ==
    [k \in 1..n |-> <<TimeIndex(order, k, n) * HourMs,
                      PriceAt(shape, TimeIndex(order, k, n), n)>>]

VolumeRows(order, n) ==
    [k \in 1..n |-> <<TimeIndex(order, k, n) * HourMs, 1000 + k>>]

HistoricalData(shape, order, form, n) ==
    LET rows == PriceRows(shape, order, n)
        vols == VolumeRows(order, n)
    IN  CASE form = "ok"         -> [prices |-> rows, total_volumes |-> vols]
          [] form = "no_prices"  -> [total_volumes |-> vols]
          [] form = "no_volumes" -> [prices |-> rows]
          [] form = "bad_row"    ->
                [prices |-> IF n = 0 THEN rows
                            ELSE [rows EXCEPT ![n] = <<rows[n][1], rows[n][2], 0>>],
                 total_volumes |-> vols]
          \* one volume pair more than there are price points
          [] form = "more_volumes" ->
                [prices |-> rows,
                 total_volumes |-> Append(vols, <<(n + 1) * HourMs, 1000 + n + 1>>)]

Inputs ==
    {HistoricalData(shape, order, form, n) :
        shape \in Shapes, order \in Orders, form \in Forms, n \in 0..MaxLen}

----------------------------------------------------------------------------
(* Exceptions.  A step either yields a value or raises; try/except turns   *)
(* a raise into the handler's return value.                                *)

Raise(msg) == [raise |-> msg]
Return(v)  == [ret |-> v]
Raised(r)  == "raise" \in DOMAIN r

ErrorResult(msg) == [error |-> msg]
IsError(v) == "error" \in DOMAIN v

----------------------------------------------------------------------------
(* pandas: DataFrame construction and sort_values('timestamp'). *)

\* pd.DataFrame(prices, columns=['timestamp', 'price']) needs two entries per row
WellFormed(prices) == \A k \in 1..Len(prices) : Len(prices[k]) = 2

RECURSIVE InsertByTimestamp(_, _)
InsertByTimestamp(row, sorted) ==
    IF sorted = <<>> THEN <<row>>
    ELSE IF row[1] < sorted[1][1] THEN <<row>> \o sorted
    ELSE <<sorted[1]>> \o InsertByTimestamp(row, Tail(sorted))

RECURSIVE SortByTimestamp(_)
SortByTimestamp(rows) ==
    IF rows = <<>> THEN <<>>
    ELSE InsertByTimestamp(rows[1], SortByTimestamp(Tail(rows)))

PriceColumn(df) == [i \in 1..Len(df) |-> df[i][2]]

----------------------------------------------------------------------------
(* AIPredictor._prepare_features and _calculate_rsi: which rows of the     *)
(* sorted table have every feature defined (dropna), and which of them     *)
(* hold an infinity.  P is the sorted price column.                        *)

\* pct_change: undefined on the first row and on 0/0
PriceChangeIsNaN(P, i) == i = 1 \/ (P[i - 1] = 0 /\ P[i] = 0)
\* pct_change: x/0 with x # 0
PriceChangeIsInf(P, i) == i > 1 /\ P[i - 1] = 0 /\ P[i] # 0

\* diff(), with the first row's NaN replaced by 0 by where(..., 0)
Delta(P, i) == IF i = 1 THEN 0 ELSE P[i] - P[i - 1]
Gain(P, i) == IF Delta(P, i) > 0 THEN Delta(P, i) ELSE 0
Loss(P, i) == IF Delta(P, i) < 0 THEN -Delta(P, i) ELSE 0

RECURSIVE GainSum(_, _, _)
GainSum(P, from, to) == IF from > to THEN 0 ELSE Gain(P, from) + GainSum(P, from + 1, to)
RECURSIVE LossSum(_, _, _)
LossSum(P, from, to) == IF from > to THEN 0 ELSE Loss(P, from) + LossSum(P, from + 1, to)

\* mutant: the rolling means defined before the window is full
RsiDefinedEarly(P, i, window) ==
    LET from == IF i - window + 1 < 1 THEN 1 ELSE i - window + 1
    IN  /\ GainSum(P, from, i) = 0
        /\ LossSum(P, from, i) = 0

\* rs = gain / loss over the window ending at i: NaN until the window is full, and on 0/0
RsiIsNaN(P, i, window) ==
    \/ i < window
    \/ /\ GainSum(P, i - window + 1, i) = 0
       /\ LossSum(P, i - window + 1, i) = 0

RowHasNaN(P, i) ==
    \/ PriceChangeIsNaN(P, i)
    \/ i < MaShort
    \/ i < MaLong
    \/ RsiIsNaN(P, i, RsiWindow)
    \/ \E lag \in 1..NumLags : i - lag < 1 \/ PriceChangeIsNaN(P, i - lag)

RowHasInf(P, i) ==
    \E lag \in 0..NumLags : i - lag >= 1 /\ PriceChangeIsInf(P, i - lag)

\* the indices the table keeps after dropna()
CleanIndices(P) == {i \in 1..Len(P) : ~RowHasNaN(P, i)}

\* _prepare_features(prices): the cleaned table, as the rows [timestamp, price, has_inf]
PrepareFeatures(prices) ==
    IF Len(prices) < MinPreparePoints THEN Raise("Not enough data for prediction")
    ELSE IF ~WellFormed(prices) THEN Raise("2 columns passed, passed data had 3 columns")
    ELSE LET sorted == SortByTimestamp(prices)
             P == PriceColumn(sorted)
             rows == [i \in 1..Len(P) |-> <<sorted[i][1], P[i], RowHasInf(P, i)>>]
         IN  Return(SelectIdx(rows, CleanIndices(P), 1))

----------------------------------------------------------------------------
(* Quotients.  <<num, den>> stands for the float num/den; x/0 is +inf,     *)
(* -inf or NaN as numpy gives it, and every comparison with NaN is false.  *)

QGt(q, t) ==
    IF q[2] > 0 THEN q[1] > t * q[2]
    ELSE IF q[2] < 0 THEN q[1] < t * q[2]
    ELSE q[1] > 0

QLt(q, t) ==
    IF q[2] > 0 THEN q[1] < t * q[2]
    ELSE IF q[2] < 0 THEN q[1] > t * q[2]
    ELSE q[1] < 0

----------------------------------------------------------------------------
(* AIPredictor._calculate_confidence *)

\* mutant: the thresholds taken as inclusive
ConfidenceInclusive(accuracies) ==
    LET avg_accuracy == <<SumSeq(accuracies), Len(accuracies)>>
    IN  IF ~QLt(avg_accuracy, 80) THEN "High"
        ELSE IF ~QLt(avg_accuracy, 60) THEN "Medium"
        ELSE "Low"

ConfidenceOfMean(accuracies) ==
    LET avg_accuracy == <<SumSeq(accuracies), Len(accuracies)>>
    IN  IF QGt(avg_accuracy, 80) THEN "High"
        ELSE IF QGt(avg_accuracy, 60) THEN "Medium"
        ELSE "Low"

\* performance: model name -> [accuracy |-> a]
CalculateConfidence(performance) ==
    ConfidenceOfMean([k \in 1..Len(ModelNames) |-> performance[ModelNames[k]].accuracy])

----------------------------------------------------------------------------
(* AIPredictor._generate_recommendation *)

\* np.mean(list(predictions.values()), axis=0)[index], index counted from 0
AvgPrediction(predictions, index) ==
    <<SumSeq([k \in 1..Len(ModelNames) |-> predictions[ModelNames[k]][index + 1]]),
      Len(ModelNames)>>

\* (avg - current_price) / current_price * 100
PercentChange(avg, current_price) ==
    <<(avg[1] - current_price * avg[2]) * 100, avg[2] * current_price>>

\* mutant: the Buy row tested before the Strong Buy row
RecommendBuyFirst(short_term_change, medium_term_change) ==
    IF QGt(short_term_change, 2) /\ QGt(medium_term_change, 5)
    THEN [action |-> "Buy", confidence |-> "Medium"]
    ELSE IF QGt(short_term_change, 5) /\ QGt(medium_term_change, 10)
    THEN [action |-> "Strong Buy", confidence |-> "High"]
    ELSE IF QLt(short_term_change, -5) /\ QLt(medium_term_change, -10)
    THEN [action |-> "Strong Sell", confidence |-> "High"]
    ELSE IF QLt(short_term_change, -2) /\ QLt(medium_term_change, -5)
    THEN [action |-> "Sell", confidence |-> "Medium"]
    ELSE [action |-> "Hold", confidence |-> "Medium"]

Recommend(short_term_change, medium_term_change) ==
    IF QGt(short_term_change, 5) /\ QGt(medium_term_change, 10)
    THEN [action |-> "Strong Buy", confidence |-> "High"]
    ELSE IF QGt(short_term_change, 2) /\ QGt(medium_term_change, 5)
    THEN [action |-> "Buy", confidence |-> "Medium"]
    ELSE IF QLt(short_term_change, -5) /\ QLt(medium_term_change, -10)
    THEN [action |-> "Strong Sell", confidence |-> "High"]
    ELSE IF QLt(short_term_change, -2) /\ QLt(medium_term_change, -5)
    THEN [action |-> "Sell", confidence |-> "Medium"]
    ELSE [action |-> "Hold", confidence |-> "Medium"]

GenerateRecommendation(predictions, current_price) ==
    Recommend(PercentChange(AvgPrediction(predictions, 2), current_price),
              PercentChange(AvgPrediction(predictions, 11), current_price))

----------------------------------------------------------------------------
(* datetime: fromtimestamp, + timedelta(hours=h), isoformat.  A datetime   *)
(* is its calendar fields; the ISO string is the tuple of those fields.    *)

FromTimestamp(ms) ==
    [day |-> ms \div DayMs, hour |-> (ms % DayMs) \div HourMs, rest |-> ms % HourMs]

AddHours(dt, h) ==
    [day |-> dt.day + (dt.hour + h) \div 24, hour |-> (dt.hour + h) % 24, rest |-> dt.rest]

Isoformat(dt) == <<dt.day, dt.hour, dt.rest>>

\* reading an ISO string back as milliseconds
ParseIso(str) == str[1] * DayMs + str[2] * HourMs + str[3]

\* mutant: timedelta(hours=i), the first forecast stamped with the last observation's time
PredictionTimestampsFromZero(last_timestamp) ==
    [i \in 1..Horizon |-> Isoformat(AddHours(last_timestamp, i - 1))]

\* prediction_timestamps: last_timestamp + timedelta(hours=i+1) for i in range(24)
PredictionTimestamps(last_timestamp) ==
    [i \in 1..Horizon |-> Isoformat(AddHours(last_timestamp, (i - 1) + 1))]

----------------------------------------------------------------------------
(* The fitted regressors.  What fit() learns is drawn: the prediction on   *)
(* the seed row, the prediction once the price-change slot holds a         *)
(* positive value, the prediction otherwise, and the accuracy score on     *)
(* the held-out rows.                                                      *)

PredValues == {88, 112}
AccValues == {50, 90}

Fits == [seed : PredValues, up : PredValues, down : PredValues, accuracy : AccValues]

NoFit == [seed |-> 0, up |-> 0, down |-> 0, accuracy |-> 0]

PredictFaults == {"none", "prepare_features", "train_test_split", "scaler", "fit", "predict",
                  "aggregate"}

\* train_test_split(test_size=0.2): ceil(0.2 n) rows held out, floor(0.8 n) rows to train on
TestRows(n) == (n + 4) \div 5
TrainRows(n) == (4 * n) \div 5

\* model.predict(last_features)[0]
ModelPredict(fit, features) ==
    IF features.seed_row THEN fit.seed
    ELSE IF QGt(features.price_change, 0) THEN fit.up
    ELSE fit.down

\* last_features[0, 0] = (pred - last_price) / last_price: only slot 0 is written
UpdateFeatures(features, pred, last_price) ==
    [features EXCEPT !.seed_row = FALSE,
                          !.price_change = <<pred - last_price, last_price>>]

\* for i in range(24): pred = model.predict(last_features)[0]; append; update
RECURSIVE FuturePredictions(_, _, _, _)
FuturePredictions(fit, features, last_price, steps) ==
    IF steps = 0 THEN <<>>
    ELSE LET pred == ModelPredict(fit, features)
         IN  <<pred>> \o FuturePredictions(fit, UpdateFeatures(features, pred, last_price),
                                           last_price, steps - 1)

\* df['price'].iloc[-1]: the price of the last row of the cleaned, sorted table
LastObservedPrice(df) == Last(df)[2]

\* X_train_scaled[-1:] if len(X_train_scaled) > 0 else X_test_scaled[-1:]
SeedFeatures(n_rows) ==
    [seed_row |-> TRUE, price_change |-> <<0, 1>>,
     taken_from |-> IF TrainRows(n_rows) > 0 THEN "train" ELSE "test"]

----------------------------------------------------------------------------
(* AIPredictor.predict_price *)

\* the mapping returned when nothing failed
ForecastResult(prices, df, fits) ==
    LET last_price == LastObservedPrice(df)
        predictions ==
            [name \in ModelSet |->
                FuturePredictions(fits[name], SeedFeatures(Len(df)), last_price, Horizon)]
        model_performance ==
            [name \in ModelSet |->
                [accuracy |-> fits[name].accuracy]]
        last_timestamp == FromTimestamp(Last(prices)[1])
    IN  [predictions |-> predictions,
         timestamps |-> PredictionTimestamps(last_timestamp),
         model_performance |-> model_performance,
         current_price |-> Last(prices)[2],
         confidence_level |-> CalculateConfidence(model_performance),
         recommendation |-> GenerateRecommendation(predictions, Last(prices)[2])]

\* mutant: the raw-length check made with _prepare_features' minimum
LooseRawCheck(prices) == Len(prices) < MinPreparePoints

\* if len(prices) < 20
InsufficientRawData(prices) == Len(prices) < MinRawPoints

\* the body of the try block; prepared is what self._prepare_features(prices) gives
\* on this input, evaluated only where the code calls it
PredictPriceBody(hd, prepared, orc) ==
    IF "prices" \notin DOMAIN hd THEN Raise("'prices'")
    ELSE IF InsufficientRawData(hd.prices)
    THEN Return(ErrorResult("Insufficient historical data for prediction"))
    ELSE LET prep == IF orc.fault = "prepare_features"
                     THEN Raise("failure in _prepare_features") ELSE prepared
         IN  IF Raised(prep) THEN prep
             ELSE IF Len(prep.ret) < MinCleanRows
             THEN Return(ErrorResult("Not enough clean data for prediction"))
             ELSE IF orc.fault = "train_test_split" THEN Raise("failure in train_test_split")
             ELSE IF \E i \in 1..Len(prep.ret) : prep.ret[i][3]
             THEN Raise("Input X contains infinity or a value too large")
             ELSE IF orc.fault = "scaler" THEN Raise("failure in StandardScaler")
             ELSE IF orc.fault = "fit" THEN Raise("failure in model.fit")
             ELSE IF orc.fault = "predict" THEN Raise("failure in model.predict")
             ELSE IF orc.fault = "aggregate" THEN Raise("failure in np.mean")
             ELSE Return(ForecastResult(hd.prices, prep.ret, orc.fits))

\* try: ... except Exception as e: return {'error': str(e)}
PredictPrice(hd, prepared, orc) ==
    LET r == PredictPriceBody(hd, prepared, orc)
    IN  IF Raised(r) THEN Return(ErrorResult(r.raise)) ELSE r

\* whether the call gets as far as fitting the models when nothing is injected
ReachesFit(hd, prepared) ==
    LET r == PredictPriceBody(hd, prepared, [fault |-> "fit"])
    IN  Raised(r) /\ r.raise = "failure in model.fit"

NoFits == [name \in ModelSet |-> NoFit]

PredictOracles(hd, prepared) ==
    IF ReachesFit(hd, prepared)
    THEN {[fault |-> "none", fits |-> f] :
              f \in [ModelSet -> Fits]}
         \cup {[fault |-> x, fits |-> NoFits] : x \in PredictFaults \ {"none"}}
    ELSE {[fault |-> x, fits |-> NoFits] : x \in {"none", "prepare_features"}}

----------------------------------------------------------------------------
(* PatternAnalyzer: the five sub-analyses.  P is the sorted price column.  *)
(* Each payload holds the fields the code derives by comparisons; its      *)
(* float-valued fields (slope, correlation, the volatilities, rsi, macd)   *)
(* are left out.                                                           *)

PatternNames == <<"support_resistance", "trend_analysis", "volatility_analysis",
                  "momentum_indicators", "candlestick_patterns">>
PatternSet == {PatternNames[k] : k \in 1..Len(PatternNames)}

\* scipy find_peaks: i is the midpoint of a plateau that is higher than both its neighbours
IsPeak(X, i) ==
    \E l \in 2..i : \E r \in i..(Len(X) - 1) :
        /\ \A j \in l..r : X[j] = X[i]
        /\ X[l - 1] < X[i]
        /\ X[r + 1] < X[i]
        /\ i = (l + r) \div 2

\* find_peaks(x, distance=d): with d <= 2 no two local maxima are closer than d
FindPeaks(X, distance) == {i \in 1..Len(X) : IsPeak(X, i)}

Negated(X) == [i \in 1..Len(X) |-> -X[i]]

RECURSIVE MinOf(_)
MinOf(s) == IF Len(s) = 1 THEN s[1]
            ELSE LET m == MinOf(Tail(s)) IN IF s[1] < m THEN s[1] ELSE m
RECURSIVE MaxOf(_)
MaxOf(s) == IF Len(s) = 1 THEN s[1]
            ELSE LET m == MaxOf(Tail(s)) IN IF s[1] > m THEN s[1] ELSE m

\* _find_support_resistance; None is <<>>, a level v is <<v>>
FindSupportResistance(P) ==
    LET resistance_levels == SelectIdx(P, FindPeaks(P, Len(P) \div 10), 1)
        support_levels == SelectIdx(P, FindPeaks(Negated(P), Len(P) \div 10), 1)
    IN  [resistance_levels |-> LastK(resistance_levels, 3),
         support_levels |-> LastK(support_levels, 3),
         current_price |-> Last(P),
         nearest_resistance |->
            IF Len(resistance_levels) > 0 THEN <<MinOf(resistance_levels)>> ELSE <<>>,
         nearest_support |->
            IF Len(support_levels) > 0 THEN <<MaxOf(support_levels)>> ELSE <<>>]

\* n * sum(x*y) - sum(x) * sum(y) for x = 0..n-1: the sign of the regression slope
SlopeNumerator(P) ==
    Len(P) * SumSeq([i \in 1..Len(P) |-> (i - 1) * P[i]])
        - SumSeq([i \in 1..Len(P) |-> i - 1]) * SumSeq(P)

\* _analyze_trend
AnalyzeTrend(P) ==
    LET slope == SlopeNumerator(P)
        ma_short == <<SumSeq(LastK(P, 5)), 5>>
        ma_long == <<SumSeq(LastK(P, 20)), 20>>
    IN  [trend_direction |-> IF slope > 0 THEN "Bullish"
                             ELSE IF slope < 0 THEN "Bearish" ELSE "Sideways",
         ma_cross_signal |-> IF ma_short[1] * ma_long[2] > ma_long[1] * ma_short[2]
                             THEN "Bullish" ELSE "Bearish",
         price_vs_ma |-> [above_ma5 |-> Last(P) * ma_short[2] > ma_short[1],
                          above_ma20 |-> Last(P) * ma_long[2] > ma_long[1]]]

\* _analyze_volatility: the level is a comparison of a float standard deviation
AnalyzeVolatility(P, orc) == [volatility_level |-> orc.volatility_level]

\* rsi.iloc[-1] as gain / (gain + loss), in percent; 0/0 is NaN
RsiSignal(P) ==
    LET gain == GainSum(P, Len(P) - RsiWindow + 1, Len(P))
        loss == LossSum(P, Len(P) - RsiWindow + 1, Len(P))
    IN  IF gain = 0 /\ loss = 0 THEN "Neutral"
        ELSE IF 100 * gain > 70 * (gain + loss) THEN "Overbought"
        ELSE IF 100 * gain < 30 * (gain + loss) THEN "Oversold"
        ELSE "Neutral"

\* _calculate_momentum: the MACD comparison is a comparison of exponential averages
CalculateMomentum(P, orc) ==
    [rsi_signal |-> RsiSignal(P),
     macd_signal_interpretation |-> orc.macd,
     momentum |-> IF Last(P) > P[Len(P) - 4] THEN "Positive" ELSE "Negative"]

\* mutant: a move of exactly 2% counted as a reversal
CandlestickInclusive(P, i) ==
    LET prev2 == P[i - 2]
        prev1 == P[i - 1]
        current == P[i]
    IN  IF prev1 < prev2 /\ 100 * current >= 102 * prev1 THEN <<"Bullish Reversal">>
        ELSE IF prev1 > prev2 /\ 100 * current <= 98 * prev1 THEN <<"Bearish Reversal">>
        ELSE IF QLt(<<Abs(current - prev1) * 1000, prev1>>, 5) THEN <<"Doji">>
        ELSE <<>>

\* the pattern appended at index i (i >= 3), <<>> when none is
CandlestickAt(P, i) ==
    LET prev2 == P[i - 2]
        prev1 == P[i - 1]
        current == P[i]
    IN  IF prev1 < prev2 /\ 100 * current > 102 * prev1 THEN <<"Bullish Reversal">>
        ELSE IF prev1 > prev2 /\ 100 * current < 98 * prev1 THEN <<"Bearish Reversal">>
        ELSE IF QLt(<<Abs(current - prev1) * 1000, prev1>>, 5) THEN <<"Doji">>
        ELSE <<>>

RECURSIVE PatternsFound(_, _)
PatternsFound(P, i) ==
    IF i > Len(P) THEN <<>> ELSE CandlestickAt(P, i) \o PatternsFound(P, i + 1)

CountOf(s, label) == Cardinality({k \in 1..Len(s) : s[k] = label})

\* _identify_candlestick_patterns
IdentifyCandlestickPatterns(P) ==
    IF Len(P) < 3 THEN [patterns |-> <<>>, signal |-> "Neutral"]
    ELSE LET patterns_found == PatternsFound(P, 3)
             recent_patterns == IF Len(patterns_found) >= 3
                                THEN LastK(patterns_found, 3) ELSE patterns_found
             bullish_count == CountOf(recent_patterns, "Bullish Reversal")
             bearish_count == CountOf(recent_patterns, "Bearish Reversal")
         IN  [recent_patterns |-> recent_patterns,
              all_patterns |-> patterns_found,
              overall_signal |-> IF bullish_count > bearish_count THEN "Bullish"
                                 ELSE IF bearish_count > bullish_count THEN "Bearish"
                                 ELSE "Neutral"]

\* self.patterns[pattern_name](df): the payload, or the exception injected into it
PatternFunc(pattern_name, P, orc) ==
    IF pattern_name \in orc.failing THEN Raise("failure in " \o pattern_name)
    ELSE Return(CASE pattern_name = "support_resistance" -> FindSupportResistance(P)
                  [] pattern_name = "trend_analysis" -> AnalyzeTrend(P)
                  [] pattern_name = "volatility_analysis" -> AnalyzeVolatility(P, orc)
                  [] pattern_name = "momentum_indicators" -> CalculateMomentum(P, orc)
                  [] pattern_name = "candlestick_patterns" -> IdentifyCandlestickPatterns(P))

----------------------------------------------------------------------------
(* PatternAnalyzer._generate_pattern_summary and _get_recommendation *)

\* mutant: an oversold RSI counted as a bullish signal
BullishLabelsWithOversold == {"Bullish", "Strong Buy", "Buy", "Oversold"}

BullishLabels == {"Bullish", "Strong Buy", "Buy"}
BearishLabels == {"Bearish", "Strong Sell", "Sell"}

\* the signals collected, in order
CollectSignals(results) ==
    (IF "trend_analysis" \in DOMAIN results /\ ~IsError(results["trend_analysis"])
     THEN <<results["trend_analysis"].trend_direction>> ELSE <<>>)
    \o (IF "momentum_indicators" \in DOMAIN results /\ ~IsError(results["momentum_indicators"])
        THEN <<results["momentum_indicators"].rsi_signal,
               results["momentum_indicators"].macd_signal_interpretation>> ELSE <<>>)
    \o (IF "candlestick_patterns" \in DOMAIN results /\ ~IsError(results["candlestick_patterns"])
        THEN <<results["candlestick_patterns"].overall_signal>> ELSE <<>>)

GetRecommendation(sentiment, confidence) ==
    IF sentiment = "Bullish" /\ confidence = "High"
    THEN "Strong consideration for long positions"
    ELSE IF sentiment = "Bullish" THEN "Moderate bullish outlook, consider entry points"
    ELSE IF sentiment = "Bearish" /\ confidence = "High"
    THEN "Strong bearish signals, consider exit strategy"
    ELSE IF sentiment = "Bearish" THEN "Moderate bearish outlook, exercise caution"
    ELSE "Mixed signals, wait for clearer direction"

\* mutant: the neutral signals left out of the comparison
SummaryByPlurality(signals) ==
    LET bullish_signals == Cardinality({k \in 1..Len(signals) : signals[k] \in BullishLabels})
        bearish_signals == Cardinality({k \in 1..Len(signals) : signals[k] \in BearishLabels})
        neutral_signals == Len(signals) - bullish_signals - bearish_signals
        verdict ==
            IF bullish_signals > bearish_signals
            THEN <<"Bullish", IF bullish_signals >= 3 THEN "High" ELSE "Medium">>
            ELSE IF bearish_signals > bullish_signals
            THEN <<"Bearish", IF bearish_signals >= 3 THEN "High" ELSE "Medium">>
            ELSE <<"Neutral", "Medium">>
    IN  [overall_sentiment |-> verdict[1],
         confidence |-> verdict[2],
         signal_breakdown |-> [bullish |-> bullish_signals,
                               bearish |-> bearish_signals,
                               neutral |-> neutral_signals],
         recommendation |-> GetRecommendation(verdict[1], verdict[2])]

\* the summary of the signals collected
SummaryOfSignals(signals) ==
    LET bullish_signals == Cardinality({k \in 1..Len(signals) : signals[k] \in BullishLabels})
        bearish_signals == Cardinality({k \in 1..Len(signals) : signals[k] \in BearishLabels})
        neutral_signals == Len(signals) - bullish_signals - bearish_signals
        verdict ==
            IF bullish_signals > bearish_signals + neutral_signals
            THEN <<"Bullish", IF bullish_signals >= 3 THEN "High" ELSE "Medium">>
            ELSE IF bearish_signals > bullish_signals + neutral_signals
            THEN <<"Bearish", IF bearish_signals >= 3 THEN "High" ELSE "Medium">>
            ELSE <<"Neutral", "Medium">>
    IN  [overall_sentiment |-> verdict[1],
         confidence |-> verdict[2],
         signal_breakdown |-> [bullish |-> bullish_signals,
                               bearish |-> bearish_signals,
                               neutral |-> neutral_signals],
         recommendation |-> GetRecommendation(verdict[1], verdict[2])]

GeneratePatternSummary(results) == SummaryOfSignals(CollectSignals(results))

----------------------------------------------------------------------------
(* PatternAnalyzer.analyze_patterns *)

\* mutant: no try/except around a sub-analysis, so its exception leaves the loop
RunPatternsUnguarded(P, orc) ==
    IF orc.failing # {}
    THEN Raise("failure in " \o (CHOOSE name \in orc.failing : TRUE))
    ELSE Return([pattern_name \in PatternSet |-> PatternFunc(pattern_name, P, orc).ret])

\* for pattern_name, pattern_func in self.patterns.items(): try: ... except Exception as e: ...
RunPatterns(P, orc) ==
    Return([pattern_name \in PatternSet |->
                LET r == PatternFunc(pattern_name, P, orc)
                IN  IF Raised(r) THEN ErrorResult(r.raise) ELSE r.ret])

\* df['price'].values after the table is built and sorted by timestamp
SortedPrices(hd) ==
    PriceColumn(SortByTimestamp([k \in 1..Len(hd.prices) |->
                    <<hd.prices[k][1], hd.prices[k][2], hd.total_volumes[k][2]>>]))

\* the body of the outer try block; P is SortedPrices(hd), evaluated only where
\* the code has built the table
AnalyzePatternsBody(hd, P, orc) ==
    IF "prices" \notin DOMAIN hd THEN Raise("'prices'")
    ELSE IF "total_volumes" \notin DOMAIN hd THEN Raise("'total_volumes'")
    ELSE IF Len(hd.prices) < MinPatternPoints
    THEN Return(ErrorResult("Insufficient data for pattern analysis"))
    ELSE IF ~WellFormed(hd.prices) THEN Raise("2 columns passed, passed data had 3 columns")
    ELSE IF \E k \in 1..Len(hd.total_volumes) : Len(hd.total_volumes[k]) < 2
    THEN Raise("list index out of range")
    ELSE IF Len(hd.total_volumes) # Len(hd.prices)
    THEN Raise("Length of values does not match length of index")
    ELSE LET run == RunPatterns(P, orc)
         IN  IF Raised(run) THEN run
             ELSE IF orc.fault = "summary" THEN Raise("failure in _generate_pattern_summary")
             ELSE Return(run.ret @@ [summary |-> GeneratePatternSummary(run.ret),
                                     timestamp |-> "now"])

\* mutant: the outer try/except missing
AnalyzePatternsUncaught(hd, P, orc) == AnalyzePatternsBody(hd, P, orc)

\* try: ... except Exception as e: return {'error': str(e)}
AnalyzePatterns(hd, P, orc) ==
    LET r == AnalyzePatternsBody(hd, P, orc)
    IN  IF Raised(r) THEN Return(ErrorResult(r.raise)) ELSE r

QuietOracle == [fault |-> "none", failing |-> {}, macd |-> "Bullish", volatility_level |-> "Low"]

\* whether the call gets as far as the sub-analyses
ReachesPatterns(hd, P) ==
    LET r == AnalyzePatternsBody(hd, P, [QuietOracle EXCEPT !.fault = "summary"])
    IN  Raised(r) /\ r.raise = "failure in _generate_pattern_summary"

PatternOracles(hd, P) ==
    IF ReachesPatterns(hd, P)
    THEN [fault : {"none"}, failing : SUBSET PatternSet,
          macd : {"Bullish", "Bearish"}, volatility_level : {"Low", "High"}]
         \cup {[QuietOracle EXCEPT !.fault = "summary"]}
    ELSE {QuietOracle}

----------------------------------------------------------------------------
(* Spec: one call of an entry point on a drawn historical-data object. *)

NoOracle == [fault |-> "none"]
NoOutcome == [pending |-> TRUE]
Idle == [idle |-> TRUE]

\* the parts of the state a specification does not use
CallIdle ==
    /\ historical_data = Idle
    /\ oracle = NoOracle
    /\ entry = "none"
    /\ outcome = NoOutcome
ScoreIdle == score_in = Idle /\ score_out = Idle
SharedIdle == predictor = Idle /\ calls = <<>> /\ clobbered = FALSE
LoopIdle ==
    /\ X_scaled = Idle
    /\ last_features = <<>>
    /\ future_predictions = <<>>
    /\ loop = Idle
WsIdle ==
    /\ active_connections = <<>>
    /\ background_task_running = FALSE
    /\ endpoints = Idle
    /\ tasks = <<>>
    /\ ready = <<>>
    /\ ws_log = Idle
CacheIdle ==
    /\ cache = Idle
    /\ now = 0
    /\ reply = Idle

Init ==
    /\ historical_data \in Inputs
    /\ oracle = NoOracle
    /\ entry = "none"
    /\ outcome = NoOutcome
    /\ score_in = Idle
    /\ score_out = Idle
    /\ predictor = Idle
    /\ calls = <<>>
    /\ clobbered = FALSE
    /\ LoopIdle
    /\ WsIdle
    /\ CacheIdle

CallPredictPrice ==
    /\ entry = "none"
    /\ LET prepared == PrepareFeatures(historical_data.prices)
       IN  \E orc \in PredictOracles(historical_data, prepared) :
               /\ oracle' = orc
               /\ outcome' = PredictPrice(historical_data, prepared, orc)
    /\ entry' = "predict_price"
    /\ UNCHANGED <<loopVars, wsVars, cacheVars, historical_data, score_in, score_out, predictor, calls, clobbered>>

CallAnalyzePatterns ==
    /\ entry = "none"
    /\ LET P == SortedPrices(historical_data)
       IN  \E orc \in PatternOracles(historical_data, P) :
               /\ oracle' = orc
               /\ outcome' = AnalyzePatterns(historical_data, P, orc)
    /\ entry' = "analyze_patterns"
    /\ UNCHANGED <<loopVars, wsVars, cacheVars, historical_data, score_in, score_out, predictor, calls, clobbered>>

Next == CallPredictPrice \/ CallAnalyzePatterns

Spec == Init /\ [][Next]_vars

----------------------------------------------------------------------------
(* SpecScore: the scorers applied to drawn arguments. *)

\* a 24-step forecast whose 3rd value is short and whose 12th value is medium
ForecastOf(short, medium) ==
    [i \in 1..Horizon |-> IF i = 3 THEN short ELSE IF i = 12 THEN medium ELSE 100]

ShortValues == {94, 95, 97, 98, 100, 102, 103, 105, 106}
MediumValues == {89, 90, 94, 95, 100, 105, 106, 110, 111}
Spreads == {0, 2}
AccuracyValues == {0, 40, 59, 60, 61, 70, 79, 80, 81, 85, 100}

RecommendationInputs ==
    {[fn |-> "recommendation",
      predictions |-> [name \in ModelSet |->
                          IF name = "random_forest" THEN ForecastOf(a, b)
                          ELSE ForecastOf(a + d, b + d)],
      current_price |-> 100] :
        a \in ShortValues, b \in MediumValues, d \in Spreads}

ConfidenceInputs ==
    {[fn |-> "confidence",
      performance |-> [name \in ModelSet |->
                          [accuracy |-> IF name = "random_forest" THEN a ELSE b]]] :
        a \in AccuracyValues, b \in AccuracyValues}

TrendPayloads ==
    {[trend_direction |-> d] : d \in {"Bullish", "Bearish", "Sideways"}}
MomentumPayloads ==
    {[rsi_signal |-> r, macd_signal_interpretation |-> m] :
        r \in {"Overbought", "Oversold", "Neutral"}, m \in {"Bullish", "Bearish"}}
CandlestickPayloads ==
    {[overall_signal |-> c] : c \in {"Bullish", "Bearish", "Neutral"}}
Failed == {ErrorResult("failed")}

SummaryInputs ==
    {[fn |-> "summary",
      results |-> [pattern_name \in PatternSet |->
                      CASE pattern_name = "trend_analysis" -> t
                        [] pattern_name = "momentum_indicators" -> m
                        [] pattern_name = "candlestick_patterns" -> c
                        [] OTHER -> [volatility_level |-> "Low"]]] :
        t \in TrendPayloads \cup Failed,
        m \in MomentumPayloads \cup Failed,
        c \in CandlestickPayloads \cup Failed}

\* price columns for the candlestick detection: every column of 3 or 4 prices on
\* and around the 2% and 0.5% thresholds, and longer columns of large moves
CandleValues == {979, 980, 1000, 1004, 1005, 1020, 1021}
SwingValues == {979, 1000, 1021}

CandlestickInputs ==
    {[fn |-> "candlesticks", prices |-> P] :
        P \in UNION {[1..n -> CandleValues] : n \in 3..4}
              \cup UNION {[1..n -> SwingValues] : n \in 5..MaxCandles}}

InitScore ==
    /\ historical_data = Idle
    /\ oracle = NoOracle
    /\ entry = "none"
    /\ outcome = NoOutcome
    /\ score_in \in RecommendationInputs \cup ConfidenceInputs \cup SummaryInputs
                        \cup CandlestickInputs
    /\ score_out = Idle
    /\ predictor = Idle
    /\ calls = <<>>
    /\ clobbered = FALSE
    /\ LoopIdle
    /\ WsIdle
    /\ CacheIdle

ScoreRecommendation ==
    /\ score_out = Idle
    /\ score_in.fn = "recommendation"
    /\ score_out' = GenerateRecommendation(score_in.predictions, score_in.current_price)
    /\ UNCHANGED <<loopVars, wsVars, cacheVars, historical_data, oracle, entry, outcome, score_in, predictor, calls, clobbered>>

ScoreConfidence ==
    /\ score_out = Idle
    /\ score_in.fn = "confidence"
    /\ score_out' = [confidence_level |-> CalculateConfidence(score_in.performance)]
    /\ UNCHANGED <<loopVars, wsVars, cacheVars, historical_data, oracle, entry, outcome, score_in, predictor, calls, clobbered>>

ScoreSummary ==
    /\ score_out = Idle
    /\ score_in.fn = "summary"
    /\ score_out' = GeneratePatternSummary(score_in.results)
    /\ UNCHANGED <<loopVars, wsVars, cacheVars, historical_data, oracle, entry, outcome, score_in, predictor, calls, clobbered>>

ScoreCandlesticks ==
    /\ score_out = Idle
    /\ score_in.fn = "candlesticks"
    /\ score_out' = IdentifyCandlestickPatterns(score_in.prices)
    /\ UNCHANGED <<loopVars, wsVars, cacheVars, historical_data, oracle, entry, outcome, score_in, predictor, calls, clobbered>>

NextScore == ScoreRecommendation \/ ScoreConfidence \/ ScoreSummary \/ ScoreCandlesticks

SpecScore == InitScore /\ [][NextScore]_vars

----------------------------------------------------------------------------
(* SpecShared: the predict_price calls the route handler makes on the one  *)
(* AIPredictor object of routes.py.  The handler is a coroutine that never *)
(* awaits inside predict_price and gunicorn runs one worker, so a call     *)
(* runs to its end before the next one starts.  A fitted object is         *)
(* described by the call that fitted it and the data it was fitted on.     *)

DataIds == {1, 2, 3}

Unfitted == [fitted_by |-> 0, fitted_on |-> 0]

\* AIPredictor.__init__: the models and the scaler are constructed once, here
NewPredictor ==
    [scaler |-> Unfitted, models |-> [name \in ModelSet |-> Unfitted]]

NewCall(data) ==
    [data |-> data, pc |-> "fit_scaler", model |-> 1,
     test_scaled_with |-> 0, predicted_with |-> [name \in ModelSet |-> 0]]

InitShared ==
    /\ historical_data = Idle
    /\ oracle = NoOracle
    /\ entry = "none"
    /\ outcome = NoOutcome
    /\ score_in = Idle
    /\ score_out = Idle
    /\ predictor = NewPredictor
    /\ calls = <<>>
    /\ clobbered = FALSE
    /\ LoopIdle
    /\ WsIdle
    /\ CacheIdle

Running == calls # <<>> /\ Last(calls).pc # "done"

\* the call in progress
Current == Len(calls)

\* GET /api/predictions/{coin_id}: ai_predictor.predict_price(historical_data)
StartCall ==
    /\ ~Running
    /\ Len(calls) < MaxCalls
    /\ \E data \in DataIds : calls' = Append(calls, NewCall(data))
    /\ UNCHANGED <<loopVars, wsVars, cacheVars, historical_data, oracle, entry, outcome, score_in, score_out,
                   predictor, clobbered>>

\* X_train_scaled = self.scaler.fit_transform(X_train)
FitScaler ==
    /\ Running
    /\ calls[Current].pc = "fit_scaler"
    /\ predictor' = [predictor EXCEPT !.scaler =
                        [fitted_by |-> Current, fitted_on |-> calls[Current].data]]
    /\ clobbered' = (clobbered \/ predictor.scaler.fitted_by \notin {0, Current})
    /\ calls' = [calls EXCEPT ![Current].pc = "transform"]
    /\ UNCHANGED <<loopVars, wsVars, cacheVars, historical_data, oracle, entry, outcome, score_in, score_out>>

\* X_test_scaled = self.scaler.transform(X_test)
TransformTest ==
    /\ Running
    /\ calls[Current].pc = "transform"
    /\ calls' = [calls EXCEPT ![Current].pc = "fit_model",
                              ![Current].test_scaled_with = predictor.scaler.fitted_on]
    /\ UNCHANGED <<loopVars, wsVars, cacheVars, historical_data, oracle, entry, outcome, score_in, score_out,
                   predictor, clobbered>>

\* for name, model in self.models.items(): model.fit(X_train_scaled, y_train)
FitModel ==
    /\ Running
    /\ calls[Current].pc = "fit_model"
    /\ LET name == ModelNames[calls[Current].model]
       IN  /\ predictor' = [predictor EXCEPT !.models[name] =
                               [fitted_by |-> Current, fitted_on |-> calls[Current].data]]
           /\ clobbered' = (clobbered \/ predictor.models[name].fitted_by \notin {0, Current})
    /\ calls' = [calls EXCEPT ![Current].pc = "predict"]
    /\ UNCHANGED <<loopVars, wsVars, cacheVars, historical_data, oracle, entry, outcome, score_in, score_out>>

\* y_pred = model.predict(X_test_scaled) and the 24 calls of model.predict(last_features)
PredictWithModel ==
    /\ Running
    /\ calls[Current].pc = "predict"
    /\ LET name == ModelNames[calls[Current].model]
       IN  calls' = [calls EXCEPT
                ![Current].predicted_with[name] = predictor.models[name].fitted_on,
                ![Current].model = IF @ < Len(ModelNames) THEN @ + 1 ELSE @,
                ![Current].pc = IF calls[Current].model < Len(ModelNames)
                                THEN "fit_model" ELSE "done"]
    /\ UNCHANGED <<loopVars, wsVars, cacheVars, historical_data, oracle, entry, outcome, score_in, score_out,
                   predictor, clobbered>>

NextShared == StartCall \/ FitScaler \/ TransformTest \/ FitModel \/ PredictWithModel

SpecShared == InitShared /\ [][NextShared]_vars

----------------------------------------------------------------------------
(* SpecLoop: the per-model loop of predict_price (lines 83-108) on the     *)
(* standardized partitions, one statement at a time.  A feature row is the *)
(* sequence of its slots in the order of feature_columns; every slot holds *)
(* a quotient.                                                             *)

\* the columns of the table other than 'timestamp' and 'price', in the order
\* _prepare_features adds them
FeatureColumns ==
    <<"price_change", "ma_5", "ma_10", "volatility", "rsi",
      "price_lag_1", "change_lag_1", "price_lag_2", "change_lag_2",
      "price_lag_3", "change_lag_3", "price_lag_4", "change_lag_4",
      "price_lag_5", "change_lag_5", "hour", "day_of_week">>

\* the standardized feature row of the r-th row of the cleaned table
ScaledRow(r) == [k \in 1..Len(FeatureColumns) |-> <<10 * r + k, 1>>]

\* the order train_test_split(random_state=42) shuffles n rows into
Shuffles == {"identity", "reversed", "rotated"}
Permuted(kind, n) ==
    [k \in 1..n |-> CASE kind = "identity" -> k
                      [] kind = "reversed" -> n + 1 - k
                      [] kind = "rotated"  -> ((k + 2) % n) + 1]

\* train_test_split and the scaler: the first ceil(0.2 n) shuffled rows are held
\* out, the others are the training partition
Partitions(kind, n) ==
    LET perm == Permuted(kind, n)
    IN  [train |-> [k \in 1..TrainRows(n) |-> ScaledRow(perm[TestRows(n) + k])],
         test  |-> [k \in 1..TestRows(n) |-> ScaledRow(perm[k])]]

\* df['price'].iloc[-1] of the tables drawn
LastPrices == {0, 100}

\* a float that is an infinity or NaN
Undefined(q) == q[2] = 0

\* model.predict(last_features)[0]: a function of the row, fixed by the fit
RowPredict(fit, row, seed) ==
    IF row = seed THEN fit.seed
    ELSE IF QGt(row[1], 0) THEN fit.up
    ELSE fit.down

\* X_train_scaled[-1:] if len(X_train_scaled) > 0 else X_test_scaled[-1:]
SeedRow(X) == IF Len(X.train) > 0 THEN Last(X.train) ELSE Last(X.test)

\* mutant: the update also moves the price-change lags down by one step
WritePriceChangeShiftingLags(row, value) ==
    [k \in 1..Len(row) |->
        IF k = 1 THEN value
        ELSE IF k = 7 THEN row[1]
        ELSE IF k \in {9, 11, 13, 15} THEN row[k - 2]
        ELSE row[k]]

\* last_features = last_features.copy(); last_features[0, 0] = value
WritePriceChange(row, value) == [row EXCEPT ![1] = value]

InitLoop ==
    /\ CallIdle
    /\ ScoreIdle
    /\ SharedIdle
    /\ WsIdle
    /\ CacheIdle
    /\ \E n \in MinCleanRows..MaxRows : \E kind \in Shuffles :
          X_scaled = Partitions(kind, n)
    /\ last_features = <<>>
    /\ future_predictions = <<>>
    /\ \E last_price \in LastPrices :
          loop = [pc |-> "fit", model |-> 1, i |-> 0, fit |-> NoFit,
                  last_price |-> last_price, seed |-> <<>>, predictions |-> <<>>]

\* model.fit(X_train_scaled, y_train) and the scores on the held-out rows
FitAndEvaluate ==
    /\ loop # Idle
    /\ loop.pc = "fit"
    /\ \E fit \in Fits : loop' = [loop EXCEPT !.fit = fit, !.pc = "seed"]
    /\ UNCHANGED <<callVars, scoreVars, sharedVars, wsVars, cacheVars,
                   X_scaled, last_features, future_predictions>>

\* last_features = X_train_scaled[-1:] ...; future_predictions = []
SeedForecast ==
    /\ loop # Idle
    /\ loop.pc = "seed"
    /\ last_features' = SeedRow(X_scaled)
    /\ future_predictions' = <<>>
    /\ loop' = [loop EXCEPT !.seed = SeedRow(X_scaled), !.i = 0, !.pc = "predict"]
    /\ UNCHANGED <<callVars, scoreVars, sharedVars, wsVars, cacheVars, X_scaled>>

\* pred = model.predict(last_features)[0]; future_predictions.append(float(pred))
PredictStep ==
    /\ loop # Idle
    /\ loop.pc = "predict"
    /\ ~Undefined(last_features[1])
    /\ future_predictions' =
          Append(future_predictions, RowPredict(loop.fit, last_features, loop.seed))
    /\ loop' = [loop EXCEPT !.pc = "update"]
    /\ UNCHANGED <<callVars, scoreVars, sharedVars, wsVars, cacheVars,
                   X_scaled, last_features>>

\* model.predict on a row holding an infinity or NaN raises ValueError, which
\* ends the loop in the handler of predict_price
PredictRaises ==
    /\ loop # Idle
    /\ loop.pc = "predict"
    /\ Undefined(last_features[1])
    /\ loop' = [loop EXCEPT !.pc = "raised"]
    /\ UNCHANGED <<callVars, scoreVars, sharedVars, wsVars, cacheVars,
                   X_scaled, last_features, future_predictions>>

\* if len(last_features[0]) > 0: copy, then write slot 0; the end of one of the 24 rounds
UpdateStep ==
    /\ loop # Idle
    /\ loop.pc = "update"
    /\ last_features' =
          IF Len(last_features) > 0
          THEN WritePriceChange(last_features,
                   <<Last(future_predictions) - loop.last_price, loop.last_price>>)
          ELSE last_features
    /\ loop' = [loop EXCEPT !.i = @ + 1,
                            !.pc = IF loop.i + 1 < Horizon THEN "predict" ELSE "store"]
    /\ UNCHANGED <<callVars, scoreVars, sharedVars, wsVars, cacheVars,
                   X_scaled, future_predictions>>

\* predictions[name] = future_predictions, and on to the next model
StorePredictions ==
    /\ loop # Idle
    /\ loop.pc = "store"
    /\ loop' = [loop EXCEPT !.predictions = Append(@, future_predictions),
                            !.model = IF @ < Len(ModelNames) THEN @ + 1 ELSE @,
                            !.pc = IF loop.model < Len(ModelNames) THEN "fit" ELSE "done"]
    /\ UNCHANGED <<callVars, scoreVars, sharedVars, wsVars, cacheVars,
                   X_scaled, last_features, future_predictions>>

NextLoop ==
    \/ FitAndEvaluate
    \/ SeedForecast
    \/ PredictStep
    \/ PredictRaises
    \/ UpdateStep
    \/ StorePredictions

SpecLoop == InitLoop /\ [][NextLoop]_vars

----------------------------------------------------------------------------
(* SpecWs: app.py.  The websocket endpoints and the background tasks are   *)
(* coroutines of one event loop: a coroutine runs without interruption     *)
(* from one await to the next, a coroutine whose awaited operation has     *)
(* completed joins the queue of ready coroutines, and the loop runs the    *)
(* head of that queue.  asyncio.create_task puts the new task at the end   *)
(* of the queue.  A websocket is named by its client.  The messages a      *)
(* client sends are answered on its own websocket and change nothing of    *)
(* the state below, so they are not steps here.                            *)

Clients == 1..MaxClients

EndpointOf(c) == <<"endpoint", c>>
TaskOf(t) == <<"task", t>>

InQueue(h) == \E k \in 1..Len(ready) : ready[k] = h

\* connection in self.active_connections
InList(list, c) == \E k \in 1..Len(list) : list[k] = c

\* list.remove(c): the list without the first occurrence of c
RECURSIVE Remove(_, _)
Remove(list, c) ==
    IF list = <<>> THEN <<>>
    ELSE IF list[1] = c THEN Tail(list)
    ELSE <<list[1]>> \o Remove(Tail(list), c)

\* a send on the websocket succeeds: its endpoint is running and its peer is there
CanSend(c) == endpoints[c].pc \in {"sending", "receiving"} /\ endpoints[c].peer = "open"

\* the task created by asyncio.create_task(background_price_updates())
NewTask == [pc |-> "created", kind |-> "none", idx |-> 0, conn |-> 0,
            snapshot |-> <<>>, sent |-> {}, failed |-> {}]

Sleeping(task) == [NewTask EXCEPT !.pc = "sleeping"]
Finished(task) == [NewTask EXCEPT !.pc = "finished"]

\* for connection in self.active_connections: the loop entered on a list that is
\* not empty, awaiting the send to its first element
Broadcasting(kind, list) ==
    [pc |-> "sending", kind |-> kind, idx |-> 1, conn |-> list[1],
     snapshot |-> list, sent |-> {}, failed |-> {}]

Alive(task) == task.pc # "finished"

NoBroadcast == [snapshot |-> <<>>, sent |-> {}, failed |-> {}, remaining |-> <<>>]

InitWs ==
    /\ CallIdle
    /\ ScoreIdle
    /\ SharedIdle
    /\ LoopIdle
    /\ CacheIdle
    /\ active_connections = <<>>
    /\ background_task_running = FALSE
    /\ endpoints = [c \in Clients |-> [pc |-> "new", peer |-> "open"]]
    /\ tasks = <<>>
    /\ ready = <<>>
    /\ ws_log = [disconnect_raised |-> FALSE, last_broadcast |-> NoBroadcast]

\* a client opens /ws: websocket_endpoint runs up to await websocket.accept()
ClientConnects(c) ==
    /\ endpoints[c].pc = "new"
    /\ endpoints' = [endpoints EXCEPT ![c].pc = "accepting"]
    /\ UNCHANGED <<callVars, scoreVars, sharedVars, loopVars, cacheVars,
                   active_connections, background_task_running, tasks, ready, ws_log>>

\* the peer of a websocket goes away
PeerDrops(c) ==
    /\ endpoints[c].pc \in {"accepting", "sending", "receiving"}
    /\ endpoints[c].peer = "open"
    /\ endpoints' = [endpoints EXCEPT ![c].peer = "gone"]
    /\ UNCHANGED <<callVars, scoreVars, sharedVars, loopVars, cacheVars,
                   active_connections, background_task_running, tasks, ready, ws_log>>

\* the operation an endpoint awaits completes (accept, send, or a receive that
\* finds the peer gone): the endpoint is ready to run
EndpointIoCompletes(c) ==
    /\ ~InQueue(EndpointOf(c))
    /\ \/ endpoints[c].pc \in {"accepting", "sending"}
       \/ endpoints[c].pc = "receiving" /\ endpoints[c].peer = "gone"
    /\ ready' = Append(ready, EndpointOf(c))
    /\ UNCHANGED <<callVars, scoreVars, sharedVars, loopVars, cacheVars,
                   active_connections, background_task_running, endpoints, tasks, ws_log>>

\* the send or the sleep a task awaits completes: the task is ready to run
TaskIoCompletes(t) ==
    /\ t \in 1..Len(tasks)
    /\ ~InQueue(TaskOf(t))
    /\ tasks[t].pc \in {"sending", "sleeping"}
    /\ ready' = Append(ready, TaskOf(t))
    /\ UNCHANGED <<callVars, scoreVars, sharedVars, loopVars, cacheVars,
                   active_connections, background_task_running, endpoints, tasks, ws_log>>

\* manager.connect after the accept: append, then await the status message's send
RunAccepted(c) ==
    /\ ready # <<>>
    /\ Head(ready) = EndpointOf(c)
    /\ endpoints[c].pc = "accepting"
    /\ ready' = Tail(ready)
    /\ IF endpoints[c].peer = "gone"
       THEN /\ endpoints' = [endpoints EXCEPT ![c].pc = "failed"]
            /\ UNCHANGED active_connections
       ELSE /\ active_connections' = Append(active_connections, c)
            /\ endpoints' = [endpoints EXCEPT ![c].pc = "sending"]
    /\ UNCHANGED <<callVars, scoreVars, sharedVars, loopVars, cacheVars,
                   background_task_running, tasks, ws_log>>

\* after the status message: if not background_task_running: create_task(...);
\* then await websocket.receive_text().  A send that failed raises out of the
\* endpoint, which leaves the websocket in the list.
RunSent(c) ==
    /\ ready # <<>>
    /\ Head(ready) = EndpointOf(c)
    /\ endpoints[c].pc = "sending"
    /\ IF endpoints[c].peer = "gone"
       THEN /\ endpoints' = [endpoints EXCEPT ![c].pc = "failed"]
            /\ ready' = Tail(ready)
            /\ UNCHANGED tasks
       ELSE /\ endpoints' = [endpoints EXCEPT ![c].pc = "receiving"]
            /\ IF ~background_task_running
               THEN /\ tasks' = Append(tasks, NewTask)
                    /\ ready' = Append(Tail(ready), TaskOf(Len(tasks) + 1))
               ELSE /\ ready' = Tail(ready)
                    /\ UNCHANGED tasks
    /\ UNCHANGED <<callVars, scoreVars, sharedVars, loopVars, cacheVars,
                   active_connections, background_task_running, ws_log>>

\* except WebSocketDisconnect: manager.disconnect(websocket); list.remove raises
\* ValueError when the websocket is not in the list
RunDisconnected(c) ==
    /\ ready # <<>>
    /\ Head(ready) = EndpointOf(c)
    /\ endpoints[c].pc = "receiving"
    /\ ready' = Tail(ready)
    /\ IF InList(active_connections, c)
       THEN /\ active_connections' = Remove(active_connections, c)
            /\ endpoints' = [endpoints EXCEPT ![c].pc = "closed"]
            /\ UNCHANGED ws_log
       ELSE /\ endpoints' = [endpoints EXCEPT ![c].pc = "failed"]
            /\ ws_log' = [ws_log EXCEPT !.disconnect_raised = TRUE]
            /\ UNCHANGED active_connections
    /\ UNCHANGED <<callVars, scoreVars, sharedVars, loopVars, cacheVars,
                   background_task_running, tasks>>

\* while background_task_running and manager.active_connections: one round up to
\* its first await (the send to the first connection, or the sleep after a fetch
\* that raised); otherwise background_task_running = False and the task ends
WhileCheck(t, running) ==
    IF running /\ active_connections # <<>>
    THEN /\ background_task_running' = running
         /\ \E fetched \in BOOLEAN :
               tasks' = [tasks EXCEPT ![t] =
                            IF fetched THEN Broadcasting("price_update", active_connections)
                            ELSE Sleeping(@)]
    ELSE /\ background_task_running' = FALSE
         /\ tasks' = [tasks EXCEPT ![t] = Finished(@)]

\* the first run of a task: background_task_running = True, then the loop
RunTaskStart(t) ==
    /\ ready # <<>>
    /\ Head(ready) = TaskOf(t)
    /\ tasks[t].pc = "created"
    /\ ready' = Tail(ready)
    /\ WhileCheck(t, TRUE)
    /\ UNCHANGED <<callVars, scoreVars, sharedVars, loopVars, cacheVars,
                   active_connections, endpoints, ws_log>>

\* after asyncio.sleep(30): the loop condition again
RunTaskWakes(t) ==
    /\ ready # <<>>
    /\ Head(ready) = TaskOf(t)
    /\ tasks[t].pc = "sleeping"
    /\ ready' = Tail(ready)
    /\ WhileCheck(t, background_task_running)
    /\ UNCHANGED <<callVars, scoreVars, sharedVars, loopVars, cacheVars,
                   active_connections, endpoints, ws_log>>

\* broadcast, after the send to the connection in hand: on a failure remove it if
\* it is in the list; then the list iterator moves to the next index of the list
\* as it is now.  At the end of the first broadcast the trending data is fetched
\* and broadcast, at the end of the second the task sleeps.
RunTaskSent(t) ==
    /\ ready # <<>>
    /\ Head(ready) = TaskOf(t)
    /\ tasks[t].pc = "sending"
    /\ ready' = Tail(ready)
    /\ LET task == tasks[t]
           ok == CanSend(task.conn)
           list == IF ~ok /\ InList(active_connections, task.conn)
                   THEN Remove(active_connections, task.conn)
                   ELSE active_connections
           sent == IF ok THEN task.sent \cup {task.conn} ELSE task.sent
           failed == IF ok THEN task.failed ELSE task.failed \cup {task.conn}
       IN  /\ active_connections' = list
           /\ IF task.idx + 1 <= Len(list)
              THEN /\ tasks' = [tasks EXCEPT ![t] =
                                   [task EXCEPT !.idx = task.idx + 1,
                                                !.conn = list[task.idx + 1],
                                                !.sent = sent,
                                                !.failed = failed]]
                   /\ UNCHANGED ws_log
              ELSE /\ ws_log' = [ws_log EXCEPT !.last_broadcast =
                                    [snapshot |-> task.snapshot, sent |-> sent,
                                     failed |-> failed, remaining |-> list]]
                   /\ IF task.kind = "price_update"
                      THEN \E fetched \in BOOLEAN :
                               tasks' = [tasks EXCEPT ![t] =
                                   IF fetched /\ list # <<>>
                                   THEN Broadcasting("trending_update", list)
                                   ELSE Sleeping(@)]
                      ELSE tasks' = [tasks EXCEPT ![t] = Sleeping(@)]
    /\ UNCHANGED <<callVars, scoreVars, sharedVars, loopVars, cacheVars,
                   background_task_running, endpoints>>

NextWs ==
    \/ \E c \in Clients :
          \/ ClientConnects(c)
          \/ PeerDrops(c)
          \/ EndpointIoCompletes(c)
          \/ RunAccepted(c)
          \/ RunSent(c)
          \/ RunDisconnected(c)
    \/ \E t \in 1..MaxClients :
          \/ TaskIoCompletes(t)
          \/ RunTaskStart(t)
          \/ RunTaskWakes(t)
          \/ RunTaskSent(t)

SpecWs == InitWs /\ [][NextWs]_vars

----------------------------------------------------------------------------
(* SpecCache: CryptoService.  The clock advances in steps of 60 seconds,   *)
(* the length of the wait after a rate-limited request, so that an entry   *)
(* is asked for at ages 0, 60, ..., 240, 300, 360, ... seconds.  What the  *)
(* remote API answers to a request is drawn.                               *)

\* f"coin_history_{coin_id}_{days}"
CoinHistoryKey(coin_id, days) == "coin_history_" \o coin_id \o "_" \o ToString(days)
MarketOverviewKey == "market_overview"
TrendingCoinsKey == "trending_coins"

\* the result a public method builds from what the API answered at time t: a dict
\* with a 'timestamp' entry, so `if cached_data:` is true of it
Fetched(key, t) == [key |-> key, fetched_at |-> t]

\* _get_mock_price_data(coin_id, days)
MockPriceData(coin_id, days) == [coin_id |-> coin_id, days |-> days, mock |-> TRUE]

None == [none |-> TRUE]

\* self.cache[key] as (data, timestamp), None when the key is not there
Entry(c, key) == IF key \in DOMAIN c THEN c[key] ELSE None

\* mutant: an entry still served at the age of exactly cache_duration
GetCachedDataInclusive(c, key, t) ==
    IF key \in DOMAIN c /\ t - c[key].timestamp <= CacheDuration
    THEN c[key].data
    ELSE None

\* _get_cached_data(key) at time t
GetCachedData(c, key, t) ==
    IF key \in DOMAIN c /\ t - c[key].timestamp < CacheDuration
    THEN c[key].data
    ELSE None

\* _cache_data(key, data) at time t
CacheData(c, key, data, t) ==
    [k \in DOMAIN c \cup {key} |->
        IF k = key THEN [data |-> data, timestamp |-> t] ELSE c[k]]

\* what one call of _make_request meets: an answer, an answer after a 429 and the
\* wait, a failure, a failure after a 429 and the wait
RequestOutcomes == {"ok", "retried_ok", "failed", "retried_failed"}

\* _make_request: whether it raises, the HTTP requests it makes, the seconds it sleeps
MakeRequest(req) ==
    [raised   |-> req \in {"failed", "retried_failed"},
     requests |-> IF req \in {"retried_ok", "retried_failed"} THEN 2 ELSE 1,
     slept    |-> IF req \in {"retried_ok", "retried_failed"} THEN RateLimitWait ELSE 0]

\* the _make_request calls of a method made one after the other, up to the first
\* that raises
RECURSIVE MakeRequests(_)
MakeRequests(reqs) ==
    IF reqs = <<>> THEN [raised |-> FALSE, requests |-> 0, slept |-> 0]
    ELSE LET first == MakeRequest(reqs[1])
             rest == MakeRequests(Tail(reqs))
         IN  IF first.raised THEN first
             ELSE [raised |-> rest.raised,
                   requests |-> first.requests + rest.requests,
                   slept |-> first.slept + rest.slept]

NoReply == [pending |-> TRUE]

InitCache ==
    /\ CallIdle
    /\ ScoreIdle
    /\ SharedIdle
    /\ LoopIdle
    /\ WsIdle
    /\ cache = <<>>
    /\ now = 0
    /\ reply = NoReply

\* time passes
Tick ==
    /\ reply # Idle
    /\ now + RateLimitWait <= MaxTime
    /\ now' = now + RateLimitWait
    /\ UNCHANGED <<callVars, scoreVars, sharedVars, loopVars, wsVars, cache, reply>>

\* a public method that raises when the upstream fails: the cache is asked first,
\* then the requests are made and their result is stored
ServeOrRaise(fn, key, reqs) ==
    LET cached_data == GetCachedData(cache, key, now)
        made == MakeRequests(reqs)
        before == Entry(cache, key)
    IN  IF cached_data # None
        THEN /\ reply' = [fn |-> fn, key |-> key, at |-> now, before |-> before,
                          value |-> cached_data, raised |-> FALSE, requests |-> 0,
                          upstream_failed |-> FALSE]
             /\ UNCHANGED <<cache, now>>
        ELSE /\ now' = now + made.slept
             /\ IF made.raised
                THEN /\ reply' = [fn |-> fn, key |-> key, at |-> now, before |-> before,
                                  value |-> None, raised |-> TRUE,
                                  requests |-> made.requests, upstream_failed |-> TRUE]
                     /\ UNCHANGED cache
                ELSE /\ reply' = [fn |-> fn, key |-> key, at |-> now, before |-> before,
                                  value |-> Fetched(key, now + made.slept), raised |-> FALSE,
                                  requests |-> made.requests, upstream_failed |-> FALSE]
                     /\ cache' = CacheData(cache, key, Fetched(key, now + made.slept),
                                           now + made.slept)

\* get_market_overview(): two requests, "coins/markets" and "global"
GetMarketOverview ==
    /\ reply # Idle
    /\ now <= MaxTime
    /\ \E first \in RequestOutcomes : \E second \in RequestOutcomes :
          ServeOrRaise("get_market_overview", MarketOverviewKey, <<first, second>>)
    /\ UNCHANGED <<callVars, scoreVars, sharedVars, loopVars, wsVars>>

\* get_trending_coins(): one request
GetTrendingCoins ==
    /\ reply # Idle
    /\ now <= MaxTime
    /\ \E req \in RequestOutcomes :
          ServeOrRaise("get_trending_coins", TrendingCoinsKey, <<req>>)
    /\ UNCHANGED <<callVars, scoreVars, sharedVars, loopVars, wsVars>>

\* get_coin_history(coin_id, days=7): one request; any failure, a body without
\* 'prices' included, is answered with mock data, which is not stored
GetCoinHistory(coin_id) ==
    /\ reply # Idle
    /\ now <= MaxTime
    /\ LET key == CoinHistoryKey(coin_id, DefaultDays)
           cached_data == GetCachedData(cache, key, now)
           before == Entry(cache, key)
       IN  IF cached_data # None
           THEN /\ reply' = [fn |-> "get_coin_history", key |-> key, at |-> now,
                             before |-> before, value |-> cached_data, raised |-> FALSE,
                             requests |-> 0, upstream_failed |-> FALSE]
                /\ UNCHANGED <<cache, now>>
           ELSE \E req \in RequestOutcomes : \E well_formed \in BOOLEAN :
                   LET made == MakeRequest(req)
                   IN  /\ now' = now + made.slept
                       /\ IF made.raised \/ ~well_formed
                          THEN /\ reply' = [fn |-> "get_coin_history", key |-> key,
                                            at |-> now, before |-> before,
                                            value |-> MockPriceData(coin_id, DefaultDays),
                                            raised |-> FALSE, requests |-> made.requests,
                                            upstream_failed |-> TRUE]
                               /\ UNCHANGED cache
                          ELSE /\ reply' = [fn |-> "get_coin_history", key |-> key,
                                            at |-> now, before |-> before,
                                            value |-> Fetched(key, now + made.slept),
                                            raised |-> FALSE, requests |-> made.requests,
                                            upstream_failed |-> FALSE]
                               /\ cache' = CacheData(cache, key,
                                                     Fetched(key, now + made.slept),
                                                     now + made.slept)
    /\ UNCHANGED <<callVars, scoreVars, sharedVars, loopVars, wsVars>>

NextCache ==
    \/ Tick
    \/ GetMarketOverview
    \/ GetTrendingCoins
    \/ \E coin_id \in {"bitcoin"} : GetCoinHistory(coin_id)

SpecCache == InitCache /\ [][NextCache]_vars

----------------------------------------------------------------------------
(* The claims. *)

PredictReturned == entry = "predict_price" /\ "ret" \in DOMAIN outcome
AnalyzeReturned == entry = "analyze_patterns" /\ "ret" \in DOMAIN outcome
ForecastReturned == PredictReturned /\ ~IsError(outcome.ret)
HasPrices == "prices" \in DOMAIN historical_data

\* C1: predict_price on a 'prices' sequence of fewer than 20 entries (the empty
\* one included) returns the insufficient-data error mapping and does not raise.
C1_ShortSeriesIsInsufficientData ==
    (entry = "predict_price" /\ HasPrices /\ Len(historical_data.prices) < 20)
        => outcome = Return(ErrorResult("Insufficient historical data for prediction"))

\* C1 witness: a call on 19 points, one of them malformed, answered with the error mapping.
C1_Witness ==
    /\ PredictReturned
    /\ HasPrices
    /\ Len(historical_data.prices) = 19
    /\ ~WellFormed(historical_data.prices)
    /\ IsError(outcome.ret)

\* C2: neither entry point lets an exception out: whatever is raised inside
\* (a missing key, a malformed row, a failure while preparing features, fitting
\* or aggregating) comes back as the mapping {'error': str(e)}.
C2_FailuresBecomeErrorResults ==
    entry # "none" =>
        /\ ~Raised(outcome)
        /\ "ret" \in DOMAIN outcome
        /\ ~HasPrices => outcome.ret = ErrorResult("'prices'")
        /\ (entry = "analyze_patterns" /\ HasPrices
                /\ "total_volumes" \notin DOMAIN historical_data)
              => outcome.ret = ErrorResult("'total_volumes'")
        /\ (HasPrices /\ ~WellFormed(historical_data.prices))
              => IsError(outcome.ret)
        /\ oracle.fault # "none" => IsError(outcome.ret)

\* C2 witness: analyze_patterns on 20 or more points without 'total_volumes'
\* answered with the KeyError's text as the error.
C2_Witness ==
    /\ AnalyzeReturned
    /\ HasPrices
    /\ Len(historical_data.prices) >= 20
    /\ "total_volumes" \notin DOMAIN historical_data
    /\ outcome.ret = ErrorResult("'total_volumes'")

\* the payload a sub-analysis yields on this input when nothing fails in it
PayloadWithoutFailure(pattern_name) ==
    PatternFunc(pattern_name, SortedPrices(historical_data),
                [oracle EXCEPT !.failing = {}]).ret

\* the signals of the sub-analyses that did not fail, in the order of collection
SignalsOfSucceeded ==
    (IF "trend_analysis" \notin oracle.failing
     THEN <<PayloadWithoutFailure("trend_analysis").trend_direction>> ELSE <<>>)
    \o (IF "momentum_indicators" \notin oracle.failing
        THEN <<PayloadWithoutFailure("momentum_indicators").rsi_signal,
               PayloadWithoutFailure("momentum_indicators").macd_signal_interpretation>>
        ELSE <<>>)
    \o (IF "candlestick_patterns" \notin oracle.failing
        THEN <<PayloadWithoutFailure("candlestick_patterns").overall_signal>> ELSE <<>>)

\* the call got as far as the sub-analyses and nothing failed after them
PatternsRan ==
    /\ entry = "analyze_patterns"
    /\ HasPrices
    /\ "total_volumes" \in DOMAIN historical_data
    /\ Len(historical_data.prices) >= 20
    /\ WellFormed(historical_data.prices)
    /\ Len(historical_data.total_volumes) = Len(historical_data.prices)
    /\ oracle.fault = "none"

\* C3: in analyze_patterns on 20 or more prices, a sub-analysis that fails leaves
\* {'error': ...} under its own key, every other key holds the payload it holds
\* when that analysis does not fail, and the summary is there, built from the
\* signals of the sub-analyses that succeeded and from nothing else.
C3_SubAnalysesFailAlone ==
    (PatternsRan /\ oracle.failing # {}) =>
        /\ "ret" \in DOMAIN outcome
        /\ ~IsError(outcome.ret)
        /\ \A name \in PatternSet :
              IF name \in oracle.failing
              THEN outcome.ret[name] = ErrorResult("failure in " \o name)
              ELSE outcome.ret[name] = PayloadWithoutFailure(name)
        /\ "summary" \in DOMAIN outcome.ret
        /\ outcome.ret["summary"] = SummaryOfSignals(SignalsOfSucceeded)
        /\ LET tally == outcome.ret["summary"].signal_breakdown
           IN  tally.bullish + tally.bearish + tally.neutral = Len(SignalsOfSucceeded)

\* C3 witness: the momentum analysis alone failed; trend and candlestick payloads
\* are in place and the summary counts their two signals.
C3_Witness ==
    /\ PatternsRan
    /\ AnalyzeReturned
    /\ oracle.failing = {"momentum_indicators"}
    /\ IsError(outcome.ret["momentum_indicators"])
    /\ outcome.ret["trend_analysis"].trend_direction = "Bullish"
    /\ outcome.ret["summary"].signal_breakdown.bullish
         + outcome.ret["summary"].signal_breakdown.bearish
         + outcome.ret["summary"].signal_breakdown.neutral = 2

\* C4: a forecast holds, for every model name, exactly 24 predictions, and exactly
\* 24 timestamps; timestamp k is k hours after the last point of the series passed
\* in, so each timestamp is one hour after the one before it.
C4_TwentyFourHourlySteps ==
    ForecastReturned =>
        /\ DOMAIN outcome.ret.predictions = ModelSet
        /\ \A name \in ModelSet : Len(outcome.ret.predictions[name]) = 24
        /\ Len(outcome.ret.timestamps) = 24
        /\ \A k \in 1..24 :
              ParseIso(outcome.ret.timestamps[k])
                  = Last(historical_data.prices)[1] + k * HourMs
        /\ \A k \in 1..23 :
              ParseIso(outcome.ret.timestamps[k + 1])
                  = ParseIso(outcome.ret.timestamps[k]) + HourMs

\* C4 witness: a forecast whose 24 timestamps run over midnight into the next day.
C4_Witness ==
    /\ ForecastReturned
    /\ Len(outcome.ret.timestamps) = 24
    /\ outcome.ret.timestamps[24][1] = outcome.ret.timestamps[1][1] + 1
    /\ outcome.ret.timestamps[24][2] < outcome.ret.timestamps[1][2]


Scored(fn) == score_in # Idle /\ score_in.fn = fn /\ score_out # Idle

\* twice the model-averaged forecast at an index counted from 0 (two models)
TwiceAvgAt(index) ==
    score_in.predictions["random_forest"][index + 1]
        + score_in.predictions["linear_regression"][index + 1]

\* the change in percent of the averaged forecast against the current price is
\* above (below) pct; the current price is positive
ChangeAbove(index, pct) ==
    100 * (TwiceAvgAt(index) - 2 * score_in.current_price) > pct * 2 * score_in.current_price
ChangeBelow(index, pct) ==
    100 * (TwiceAvgAt(index) - 2 * score_in.current_price) < pct * 2 * score_in.current_price

\* C5: with s the change at index 2 and m the change at index 11 of the averaged
\* forecast, the first matching row decides: s>5 and m>10 Strong Buy/High; s>2 and
\* m>5 Buy/Medium; s<-5 and m<-10 Strong Sell/High; s<-2 and m<-5 Sell/Medium;
\* anything else (mixed signs, a value on a boundary) Hold/Medium.
C5_RecommendationTable ==
    Scored("recommendation") =>
        LET row1 == ChangeAbove(2, 5) /\ ChangeAbove(11, 10)
            row2 == ChangeAbove(2, 2) /\ ChangeAbove(11, 5)
            row3 == ChangeBelow(2, -5) /\ ChangeBelow(11, -10)
            row4 == ChangeBelow(2, -2) /\ ChangeBelow(11, -5)
        IN  /\ row1 => score_out = [action |-> "Strong Buy", confidence |-> "High"]
            /\ (~row1 /\ row2) => score_out = [action |-> "Buy", confidence |-> "Medium"]
            /\ (~row1 /\ ~row2 /\ row3)
                  => score_out = [action |-> "Strong Sell", confidence |-> "High"]
            /\ (~row1 /\ ~row2 /\ ~row3 /\ row4)
                  => score_out = [action |-> "Sell", confidence |-> "Medium"]
            /\ (~row1 /\ ~row2 /\ ~row3 /\ ~row4)
                  => score_out = [action |-> "Hold", confidence |-> "Medium"]

\* C5 witness: s is 6% and m is 11%, so the Strong Buy row and the Buy row both
\* match, and the answer is Strong Buy.
C5_Witness ==
    /\ Scored("recommendation")
    /\ TwiceAvgAt(2) = 212
    /\ TwiceAvgAt(11) = 222
    /\ score_in.current_price = 100
    /\ score_out.action = "Strong Buy"

\* the sum of the two models' accuracy scores: twice their average
TwiceAvgAccuracy ==
    score_in.performance["random_forest"].accuracy
        + score_in.performance["linear_regression"].accuracy

\* C6: the confidence level is High exactly when the average accuracy is above 80,
\* Medium exactly when it is above 60 and at most 80, Low otherwise; an average of
\* exactly 80 is Medium and of exactly 60 is Low.
C6_ConfidenceLevels ==
    Scored("confidence") =>
        /\ score_out.confidence_level = "High" <=> TwiceAvgAccuracy > 160
        /\ score_out.confidence_level = "Medium"
              <=> (TwiceAvgAccuracy > 120 /\ TwiceAvgAccuracy <= 160)
        /\ score_out.confidence_level = "Low" <=> TwiceAvgAccuracy <= 120
        /\ TwiceAvgAccuracy = 160 => score_out.confidence_level = "Medium"
        /\ TwiceAvgAccuracy = 120 => score_out.confidence_level = "Low"

\* C6 witness: accuracies 79 and 81 average exactly 80, and the level is Medium.
C6_Witness ==
    /\ Scored("confidence")
    /\ score_in.performance["random_forest"].accuracy = 79
    /\ score_in.performance["linear_regression"].accuracy = 81
    /\ score_out.confidence_level = "Medium"

\* the signals the summary collects from the results given to it
GivenSignals == CollectSignals(score_in.results)
NumBullish == Cardinality({k \in 1..Len(GivenSignals) : GivenSignals[k] = "Bullish"})
NumBearish == Cardinality({k \in 1..Len(GivenSignals) : GivenSignals[k] = "Bearish"})
NumNeither == Len(GivenSignals) - NumBullish - NumBearish

\* C7: with b, r, n the numbers of collected signals that are bullish, bearish and
\* neither (at most 4 in all), the sentiment is Bullish iff b > r + n, Bearish iff
\* r > b + n, else Neutral; the confidence is High iff the sentiment is Bullish or
\* Bearish with a winning count of at least 3, else Medium.
C7_SummaryVerdict ==
    Scored("summary") =>
        /\ Len(GivenSignals) <= 4
        /\ score_out.signal_breakdown
              = [bullish |-> NumBullish, bearish |-> NumBearish, neutral |-> NumNeither]
        /\ score_out.overall_sentiment = "Bullish" <=> NumBullish > NumBearish + NumNeither
        /\ score_out.overall_sentiment = "Bearish" <=> NumBearish > NumBullish + NumNeither
        /\ score_out.overall_sentiment \in {"Bullish", "Bearish", "Neutral"}
        /\ score_out.confidence = "High"
              <=> \/ score_out.overall_sentiment = "Bullish" /\ NumBullish >= 3
                  \/ score_out.overall_sentiment = "Bearish" /\ NumBearish >= 3
        /\ score_out.confidence \in {"High", "Medium"}

\* C7 witness: two bullish signals, one bearish and one neither: no majority over
\* the rest, so the sentiment is Neutral with confidence Medium.
C7_Witness ==
    /\ Scored("summary")
    /\ NumBullish = 2
    /\ NumBearish = 1
    /\ NumNeither = 1
    /\ score_out.overall_sentiment = "Neutral"
    /\ score_out.confidence = "Medium"

\* every price of the series passed in is the same
ConstantSeries ==
    \A j, k \in 1..Len(historical_data.prices) :
        historical_data.prices[j][2] = historical_data.prices[k][2]

\* C8: on a constant price series of sufficient length predict_price returns a
\* forecast whose predictions all equal the current price, and the recommendation
\* Hold with confidence Medium.
C8_ConstantSeriesHolds ==
    (entry = "predict_price" /\ HasPrices /\ WellFormed(historical_data.prices)
        /\ Len(historical_data.prices) >= 20 /\ ConstantSeries /\ oracle.fault = "none")
      => /\ ForecastReturned
         /\ \A name \in ModelSet : \A k \in 1..24 :
               outcome.ret.predictions[name][k] = outcome.ret.current_price
         /\ outcome.ret.recommendation = [action |-> "Hold", confidence |-> "Medium"]

\* the point of the series with the greatest timestamp
LatestPoint(prices) ==
    CHOOSE k \in 1..Len(prices) : \A j \in 1..Len(prices) : prices[j][1] <= prices[k][1]

\* C10: whatever the order the points are passed in, 'current_price' is the price
\* of the point with the greatest timestamp, the forecast timestamps start one hour
\* after that timestamp, and that point's price is the last observed price of the
\* forecast loop.
C10_LatestPointWhateverTheOrder ==
    ForecastReturned =>
        LET latest == historical_data.prices[LatestPoint(historical_data.prices)]
        IN  /\ outcome.ret.current_price = latest[2]
            /\ ParseIso(outcome.ret.timestamps[1]) = latest[1] + HourMs
            /\ LastObservedPrice(PrepareFeatures(historical_data.prices).ret) = latest[2]

\* C9: each forecast call fits model and scaler instances of its own: no fitted
\* state written by one predict_price call is overwritten or read by another.
C9_NoFittedStateShared ==
    /\ ~clobbered
    /\ \A k \in 1..Len(calls) :
          /\ calls[k].test_scaled_with \in {0, calls[k].data}
          /\ \A name \in ModelSet : calls[k].predicted_with[name] \in {0, calls[k].data}
    /\ \A k \in 1..Len(calls) :
          (calls[k].pc = "done" /\ k < Len(calls)) =>
              predictor.scaler.fitted_by \in {0, k}

\* analyze_patterns was called on well-formed prices and a 'total_volumes' sequence
WithVolumes ==
    /\ entry = "analyze_patterns"
    /\ HasPrices
    /\ "total_volumes" \in DOMAIN historical_data
    /\ WellFormed(historical_data.prices)
    /\ oracle.fault = "none"

\* C11: analyze_patterns on 20 or more prices and a 'total_volumes' sequence at
\* least as long as 'prices' returns the five analysis keys and the summary, not a
\* top-level error mapping.
C11_LongerVolumesAccepted ==
    (WithVolumes /\ Len(historical_data.prices) >= 20
        /\ Len(historical_data.total_volumes) >= Len(historical_data.prices))
      => /\ "ret" \in DOMAIN outcome
         /\ ~IsError(outcome.ret)
         /\ PatternSet \cup {"summary"} \subseteq DOMAIN outcome.ret

\* the support/resistance payload of the call that returned
Levels == outcome.ret["support_resistance"]

\* the values of the peaks (valleys) find_peaks detects in the sorted price column
PeakValues ==
    LET P == SortedPrices(historical_data)
    IN  {P[i] : i \in FindPeaks(P, Len(P) \div 10)}
ValleyValues ==
    LET P == SortedPrices(historical_data)
    IN  {P[i] : i \in FindPeaks(Negated(P), Len(P) \div 10)}

\* C12: a reported nearest_resistance is the smallest peak value not below the
\* current price and a reported nearest_support is the largest valley value not
\* above it, so nearest_resistance >= current_price >= nearest_support.
C12_NearestLevelsBracketPrice ==
    (PatternsRan /\ AnalyzeReturned /\ ~IsError(outcome.ret)
        /\ ~IsError(Levels))
      => /\ Levels.nearest_resistance # <<>> =>
               /\ Levels.nearest_resistance[1] >= Levels.current_price
               /\ Levels.nearest_resistance[1] \in PeakValues
               /\ \A v \in PeakValues :
                     v >= Levels.current_price => Levels.nearest_resistance[1] <= v
         /\ Levels.nearest_support # <<>> =>
               /\ Levels.nearest_support[1] <= Levels.current_price
               /\ Levels.nearest_support[1] \in ValleyValues
               /\ \A v \in ValleyValues :
                     v <= Levels.current_price => Levels.nearest_support[1] >= v

\* the pattern the triple ending at index i is given, <<>> when none: Bullish
\* Reversal, else Bearish Reversal, else Doji
TripleClass(p, i) ==
    IF p[i - 1] < p[i - 2] /\ 100 * p[i] > 102 * p[i - 1] THEN <<"Bullish Reversal">>
    ELSE IF p[i - 1] > p[i - 2] /\ 100 * p[i] < 98 * p[i - 1] THEN <<"Bearish Reversal">>
    ELSE IF 1000 * Abs(p[i] - p[i - 1]) < 5 * p[i - 1] THEN <<"Doji">>
    ELSE <<>>

RECURSIVE TripleClasses(_, _)
TripleClasses(p, i) ==
    IF i < 3 THEN <<>> ELSE TripleClasses(p, i - 1) \o TripleClass(p, i)

\* C14: every index from the third on is given at most one pattern from its
\* triple, Bullish Reversal before Bearish Reversal before Doji; the recent window
\* is the last 3 patterns found (all when fewer); the signal is Bullish or Bearish
\* when that label has more mentions in the window, and Neutral on a tie or when
\* nothing was found.
C14_CandlestickClassification ==
    Scored("candlesticks") =>
        LET p == score_in.prices
            found == TripleClasses(p, Len(p))
            recent == score_out.recent_patterns
            bull == Cardinality({k \in 1..Len(recent) : recent[k] = "Bullish Reversal"})
            bear == Cardinality({k \in 1..Len(recent) : recent[k] = "Bearish Reversal"})
        IN  /\ score_out.all_patterns = found
            /\ Len(found) <= Len(p) - 2
            /\ Len(recent) = (IF Len(found) < 3 THEN Len(found) ELSE 3)
            /\ \A k \in 1..Len(recent) :
                  recent[k] = found[Len(found) - Len(recent) + k]
            /\ score_out.overall_signal = "Bullish" <=> bull > bear
            /\ score_out.overall_signal = "Bearish" <=> bear > bull
            /\ score_out.overall_signal = "Neutral" <=> bull = bear
            /\ found = <<>> => score_out.overall_signal = "Neutral"

\* C14 witness: a column that alternates by more than 2% yields both reversals,
\* more than 3 patterns in all, and a window of the last 3.
C14_Witness ==
    /\ Scored("candlesticks")
    /\ Len(score_out.all_patterns) > 3
    /\ Len(score_out.recent_patterns) = 3
    /\ \E k \in 1..3 : score_out.recent_patterns[k] = "Bullish Reversal"
    /\ \E k \in 1..3 : score_out.recent_patterns[k] = "Bearish Reversal"
    /\ score_out.overall_signal \in {"Bullish", "Bearish"}

\* C15: the first 13 rows of the sorted table never survive the cleaning, so a
\* series of 20, 21 or 22 well-formed points is answered with the 'Not enough clean
\* data' error, and a forecast comes only from 23 or more points.
C15_ForecastNeedsTwentyThreePoints ==
    /\ (entry = "predict_price" /\ HasPrices /\ WellFormed(historical_data.prices)
            /\ oracle.fault = "none" /\ Len(historical_data.prices) \in 20..22)
          => outcome = Return(ErrorResult("Not enough clean data for prediction"))
    /\ (entry = "predict_price" /\ HasPrices /\ WellFormed(historical_data.prices)
            /\ Len(historical_data.prices) >= 20)
          => Len(PrepareFeatures(historical_data.prices).ret)
                <= Len(historical_data.prices) - 13
    /\ ForecastReturned => Len(historical_data.prices) >= 23

\* C15 witness: 22 points that lose exactly their 13 warm-up rows, answered
\* with the error.
C15_Witness ==
    /\ PredictReturned
    /\ HasPrices
    /\ WellFormed(historical_data.prices)
    /\ Len(historical_data.prices) = 22
    /\ Len(PrepareFeatures(historical_data.prices).ret) = 9
    /\ outcome.ret = ErrorResult("Not enough clean data for prediction")

\* the summary was computed from results none of which is an error
AllSucceeded ==
    /\ Scored("summary")
    /\ \A name \in PatternSet : ~IsError(score_in.results[name])

\* C16: when every sub-analysis succeeded four signals are collected and the RSI
\* signal is among the neutral ones: neither count exceeds 3, the sentiment is
\* Bullish (Bearish) exactly when trend direction, MACD interpretation and
\* candlestick signal are all Bullish (Bearish), and then the confidence is High;
\* Bullish or Bearish never comes with Medium.
C16_RsiCountsAsNeutral ==
    AllSucceeded =>
        LET trend == score_in.results["trend_analysis"].trend_direction
            macd == score_in.results["momentum_indicators"].macd_signal_interpretation
            candle == score_in.results["candlestick_patterns"].overall_signal
        IN  /\ Len(GivenSignals) = 4
            /\ score_out.signal_breakdown.neutral >= 1
            /\ score_out.signal_breakdown.bullish <= 3
            /\ score_out.signal_breakdown.bearish <= 3
            /\ score_out.overall_sentiment = "Bullish"
                  <=> (trend = "Bullish" /\ macd = "Bullish" /\ candle = "Bullish")
            /\ score_out.overall_sentiment = "Bearish"
                  <=> (trend = "Bearish" /\ macd = "Bearish" /\ candle = "Bearish")
            /\ score_out.overall_sentiment # "Neutral" => score_out.confidence = "High"

\* C16 witness: trend, MACD and candlesticks all Bullish with an oversold RSI:
\* three bullish signals, one neutral, Bullish with High.
C16_Witness ==
    /\ AllSucceeded
    /\ score_in.results["momentum_indicators"].rsi_signal = "Oversold"
    /\ score_out.signal_breakdown = [bullish |-> 3, bearish |-> 0, neutral |-> 1]
    /\ score_out.overall_sentiment = "Bullish"
    /\ score_out.confidence = "High"

\* the forecast loop of a model is under way or has just ended
InLoop == loop # Idle /\ loop.pc \in {"predict", "update", "store", "raised"}

\* C13: at every step of a model's forecast loop the feature row differs from the
\* seed row in the price-change slot (the first) at most, that slot holds
\* (predicted - last_observed_price)/last_observed_price of the latest round, there
\* are at most 24 rounds, and the seed row is the last training row when there is one.
C13_OnlyPriceChangeSlotMoves ==
    InLoop =>
        /\ FeatureColumns[1] = "price_change"
        /\ Len(last_features) = Len(FeatureColumns)
        /\ \A k \in 2..Len(FeatureColumns) : last_features[k] = loop.seed[k]
        /\ Len(X_scaled.train) > 0 => loop.seed = Last(X_scaled.train)
        /\ loop.i = 0 => last_features = loop.seed
        /\ loop.i > 0 =>
              last_features[1] = <<future_predictions[loop.i] - loop.last_price,
                                   loop.last_price>>
        /\ loop.i <= 24
        /\ Len(future_predictions) <= 24
        /\ loop.pc = "store" => Len(future_predictions) = 24

\* C13 witness: the second model's loop after its 24 rounds, the price-change slot
\* no longer the seed row's.
C13_Witness ==
    /\ loop # Idle
    /\ loop.pc = "store"
    /\ loop.model = 2
    /\ loop.i = 24
    /\ last_features[1] # loop.seed[1]
    /\ \A k \in 2..Len(FeatureColumns) : last_features[k] = loop.seed[k]

\* C17: under every interleaving of connects, disconnects and task steps at most
\* one background_price_updates task is alive.
C17_AtMostOneBackgroundTask ==
    Cardinality({t \in 1..Len(tasks) : Alive(tasks[t])}) <= 1

\* C18: every connection in the list when a broadcast starts is sent the message
\* or, its send having failed, removed; none that is still in the list at the end
\* was passed over; and a disconnect of a connection the broadcast removed does
\* not raise.
C18_BroadcastHandlesEveryConnection ==
    /\ ~ws_log.disconnect_raised
    /\ LET b == ws_log.last_broadcast
       IN  \A k \in 1..Len(b.snapshot) :
               /\ b.snapshot[k] \in b.sent \/ ~InList(b.remaining, b.snapshot[k])
               /\ b.snapshot[k] \in b.failed => ~InList(b.remaining, b.snapshot[k])

\* a public method of CryptoService has returned or raised
Replied == reply # Idle /\ reply # NoReply

\* C19: a request made less than 300 seconds after the key was stored returns the
\* stored data and makes no upstream request; a request made 300 seconds or more
\* after it, or for a key that is not stored, makes an upstream request; and when
\* the upstream request of get_coin_history fails the mock data is returned, nothing
\* is raised and the cache entry of the key is left as it was.
C19_CacheServedWhileValid ==
    Replied =>
        /\ (reply.before # None /\ reply.at - reply.before.timestamp < 300)
              => /\ reply.requests = 0
                 /\ reply.value = reply.before.data
                 /\ ~reply.raised
        /\ (reply.before # None /\ reply.at - reply.before.timestamp >= 300)
              => reply.requests >= 1
        /\ reply.before = None => reply.requests >= 1
        /\ (reply.fn = "get_coin_history" /\ reply.upstream_failed)
              => /\ ~reply.raised
                 /\ reply.value = MockPriceData("bitcoin", 7)
                 /\ Entry(cache, reply.key) = reply.before
        /\ (~reply.raised /\ ~reply.upstream_failed /\ reply.requests >= 1)
              => Entry(cache, reply.key).data = reply.value

\* C19 witness: a key asked for exactly 300 seconds after it was stored is fetched
\* again, and a failing get_coin_history left a stored entry in place.
C19_Witness ==
    /\ Replied
    /\ reply.before # None
    /\ reply.at - reply.before.timestamp = 300
    /\ reply.requests >= 1
    /\ reply.fn = "get_coin_history"
    /\ reply.upstream_failed
    /\ Entry(cache, reply.key) = reply.before

=============================================================================
